---- MODULE Spec2Model ----
(***************************************************************************)
(* Model of wasm/modules/recovery.go: RecoverAddresses, its partitioner    *)
(* goroutine, the recoveryWorker pool, the goroutine that closes the       *)
(* results channel, and the consuming loop with its callback events.       *)
(*                                                                         *)
(* Workers are interchangeable, so the pool is kept as a count of workers  *)
(* waiting on the work channel (idle), the rounds currently held by a      *)
(* worker (held, keyed by round number) and the WaitGroup counter (wg).    *)
(* An address is identified with its derivation index (generateAddress is  *)
(* deterministic and injective in the index).                              *)
(***************************************************************************)
EXTENDS Integers, Sequences, FiniteSets, TLC

\* ---- bounds of the model ----
\* the largest value of the package constant `workers` under Spec
MaxWorkers == 2
\* the partitioner is stopped after MaxRound rounds (the scan itself is unbounded)
MaxRound == 4
\* the longest list passed to consecutiveEmptyRounds under SpecRounds
MaxListLen == 3

\* the values the arguments of RecoverAddresses are drawn from
StartIndexes == {0, 1}
AddressCounts == {0, 1, 2}
EmptyRoundLimits == {1, 2}
LastKnownIndexes == {0, 2}
\* the indexes at which the ledger may know a used address
LedgerIndexes == 0..2

\* uint64 arithmetic wraps modulo Word (a scaled-down 2^64: TLC integers are 32 bit)
Word == 2^16

UsageTypes == {"received", "sent"}

VARIABLES
    \* arguments of RecoverAddresses and its environment
    seedValid, startIndex, maxEmptyRounds, addressCount, lastKnownIndex,
    ledger, workers,
    \* channels and WaitGroup
    work, workClosed, resultsClosed, done, wg,
    \* worker pool
    idle, held,
    \* partitioner goroutine
    ppc, round, i,
    \* consuming loop
    cpc, lastIndex, usedTotal, lastUsageType, empty,
    \* observations: callback events and channel operations
    events, doneData, progressMax, resMax, usedSeen, issued, doneCloses,
    lookupFailed, errorSeen, recvAfterStop,
    \* re-running the call (SpecRerun only)
    run, first,
    \* argument and return value (-1 before the return) of a call of
    \* consecutiveEmptyRounds (SpecRounds only)
    cerIn, cerOut

params == <<seedValid, startIndex, maxEmptyRounds, addressCount, lastKnownIndex,
            ledger, workers>>
chans == <<work, workClosed, resultsClosed, done, wg>>
pool == <<idle, held>>
part == <<ppc, round, i>>
cons == <<cpc, lastIndex, usedTotal, lastUsageType, empty>>
obs == <<events, doneData, progressMax, resMax, usedSeen, issued, doneCloses,
         lookupFailed, errorSeen, recvAfterStop>>
rerun == <<run, first>>
pure == <<cerIn, cerOut>>
vars == <<params, chans, pool, part, cons, obs, rerun, pure>>

\* ---- pure helpers ----
Max(S) == CHOOSE x \in S : \A y \in S : y <= x

NoneHeld == [r \in {} |-> 0]

Drop(f, r) == [x \in (DOMAIN f) \ {r} |-> f[x]]

Put(f, r, v) == [x \in (DOMAIN f) \cup {r} |-> IF x = r THEN v ELSE f[x]]

\* var lastRound uint64; for _, r := range rounds { if lastRound < r { lastRound = r } }
LastRound(rounds) == IF rounds = {} THEN 0 ELSE Max(rounds)

RECURSIVE WalkDown(_, _)
WalkDown(roundMap, n) ==
    IF n \notin roundMap THEN n ELSE WalkDown(roundMap, (n - 1) % Word)

\* mutant: counts the recorded rounds instead of the run ending at the highest one
consecutiveEmptyRoundsCount(rounds) == Cardinality(rounds)

\* mutant: the walk stops at round 0 instead of wrapping below it
consecutiveEmptyRoundsFloor(rounds) ==
    LET lastRound == LastRound(rounds)
        low == WalkDown(rounds, lastRound)
    IN  IF low = Word - 1 /\ 0 \in rounds THEN lastRound ELSE (lastRound - low) % Word

consecutiveEmptyRounds(rounds) ==
    LET lastRound == LastRound(rounds)
    IN  (lastRound - WalkDown(rounds, lastRound)) % Word

generateAddress(n) == [Index |-> n, UsageType |-> ""]

\* the usage records FindUsedAddresses returns for a batch of indexes, in index order
RECURSIVE FindUsedAddresses(_, _)
FindUsedAddresses(from, to) ==
    IF from >= to THEN << >>
    ELSE LET rest == FindUsedAddresses(from + 1, to)
         IN  IF from \in DOMAIN ledger /\ ledger[from] # ""
             THEN << [Index |-> from, UsageType |-> ledger[from]] >> \o rest
             ELSE rest

ZeroResult ==
    [Round |-> 0, LastUsedIndex |-> 0, Start |-> 0, End |-> 0,
     LastUsedType |-> "", Addresses |-> << >>, Error |-> FALSE]

\* the loop over `used` in recoveryWorker
RECURSIVE FoldUsed(_, _)
FoldUsed(recovered, used) ==
    IF used = << >> THEN recovered
    ELSE LET addr == Head(used)
             r1 == [recovered EXCEPT !.Addresses = Append(@, addr)]
             r2 == IF r1.LastUsedIndex < addr.Index
                   THEN [r1 EXCEPT !.LastUsedIndex = addr.Index,
                                   !.LastUsedType = addr.UsageType]
                   ELSE r1
         IN  FoldUsed(r2, Tail(used))

Recovered(r) ==
    FoldUsed([ZeroResult EXCEPT !.Round = r.Round, !.Start = r.Start, !.End = r.End],
             FindUsedAddresses(r.Start, r.End))

ErrorResult == [ZeroResult EXCEPT !.Error = TRUE]

\* ---- initial states ----
\* the ledger: the usage type of every address the oracle knows, at most two of them
Ledgers ==
    {l \in [LedgerIndexes -> UsageTypes \cup {""}] :
        Cardinality({n \in LedgerIndexes : l[n] # ""}) <= 2}

Entry ==
    /\ work = << >> /\ workClosed = FALSE /\ resultsClosed = FALSE
    /\ done = FALSE /\ wg = 0
    /\ idle = 0 /\ held = NoneHeld
    /\ ppc = "none" /\ round = 0 /\ i = 0
    /\ cpc = "call" /\ lastIndex = 0 /\ usedTotal = 0 /\ lastUsageType = ""
    /\ empty = {}
    /\ events = << >> /\ doneData = << >> /\ progressMax = 0 /\ resMax = 0
    /\ usedSeen = {} /\ issued = << >> /\ doneCloses = 0 /\ lookupFailed = FALSE
    /\ errorSeen = FALSE /\ recvAfterStop = 0

Init ==
    /\ seedValid \in BOOLEAN
    /\ startIndex \in StartIndexes
    /\ maxEmptyRounds \in EmptyRoundLimits
    /\ addressCount \in AddressCounts
    /\ lastKnownIndex \in LastKnownIndexes
    /\ ledger \in Ledgers
    /\ workers \in 1..MaxWorkers
    /\ Entry
    /\ run = 1 /\ first = << >>
    /\ cerIn = << >> /\ cerOut = -1

\* ---- RecoverAddresses: entry ----
\* recoverWallet fails: one error event, return
RecoverWalletFail ==
    /\ cpc = "call" /\ ~seedValid
    /\ cpc' = "returned"
    /\ events' = Append(events, "error")
    /\ UNCHANGED <<params, chans, pool, part, lastIndex, usedTotal, lastUsageType,
                   empty, doneData, progressMax, resMax, usedSeen, issued,
                   doneCloses, lookupFailed, errorSeen, recvAfterStop, rerun, pure>>

\* recoverWallet succeeds: channels made, workers, closer and partitioner started
StartScan ==
    /\ cpc = "call" /\ seedValid
    /\ cpc' = "range"
    /\ wg' = workers /\ idle' = workers
    /\ ppc' = "select" /\ round' = 0 /\ i' = startIndex
    /\ UNCHANGED <<params, work, workClosed, resultsClosed, done, held, lastIndex,
                   usedTotal, lastUsageType, empty, obs, rerun, pure>>

\* ---- partitioner goroutine ----
PartitionerStop ==
    /\ ppc = "select" /\ done
    /\ workClosed' = TRUE
    /\ ppc' = "exit"
    /\ UNCHANGED <<params, work, resultsClosed, done, wg, pool, round, i, cons, obs,
                   rerun, pure>>

PartitionerDefault ==
    /\ ppc = "select" /\ ~done
    /\ ppc' = "send"
    /\ UNCHANGED <<params, chans, pool, round, i, cons, obs, rerun, pure>>

\* mutant: round++ before the submission
NextWorkFromOne ==
    [Round |-> round + 1, Start |-> i, End |-> (i + addressCount) % Word]

NextWork == [Round |-> round, Start |-> i, End |-> (i + addressCount) % Word]

\* mutant: the work channel takes one round more than its capacity
PartitionerSendOverfull ==
    /\ ppc = "send"
    /\ Len(work) <= workers
    /\ round < MaxRound
    /\ work' = Append(work, NextWork)
    /\ issued' = Append(issued, NextWork)
    /\ round' = (round + 1) % Word
    /\ i' = (i + addressCount) % Word
    /\ ppc' = "select"
    /\ UNCHANGED <<params, workClosed, resultsClosed, done, wg, pool, cons, events,
                   doneData, progressMax, resMax, usedSeen, doneCloses,
                   lookupFailed, errorSeen, recvAfterStop, rerun, pure>>

PartitionerSend ==
    /\ ppc = "send"
    /\ Len(work) < workers
    /\ round < MaxRound
    /\ work' = Append(work, NextWork)
    /\ issued' = Append(issued, NextWork)
    /\ round' = (round + 1) % Word
    /\ i' = (i + addressCount) % Word
    /\ ppc' = "select"
    /\ UNCHANGED <<params, workClosed, resultsClosed, done, wg, pool, cons, events,
                   doneData, progressMax, resMax, usedSeen, doneCloses,
                   lookupFailed, errorSeen, recvAfterStop, rerun, pure>>

\* ---- recoveryWorker ----
WorkerReceive ==
    /\ idle > 0 /\ work # << >>
    /\ work' = Tail(work)
    /\ idle' = idle - 1
    /\ held' = Put(held, Head(work).Round, [pc |-> "lookup", work |-> Head(work)])
    /\ UNCHANGED <<params, workClosed, resultsClosed, done, wg, part, cons, obs,
                   rerun, pure>>

\* the work channel is closed and drained: the range loop ends, wg.Done()
WorkerExit ==
    /\ idle > 0 /\ work = << >> /\ workClosed
    /\ idle' = idle - 1
    /\ wg' = wg - 1
    /\ UNCHANGED <<params, work, workClosed, resultsClosed, done, held, part, cons,
                   obs, rerun, pure>>

WorkerLookup(r) ==
    /\ r \in DOMAIN held /\ held[r].pc = "lookup"
    /\ held' = Put(held, r, [pc |-> "send", res |-> Recovered(held[r].work)])
    /\ UNCHANGED <<params, chans, idle, part, cons, obs, rerun, pure>>

WorkerLookupFail(r) ==
    /\ r \in DOMAIN held /\ held[r].pc = "lookup"
    /\ held' = Put(held, r, [pc |-> "send", res |-> ErrorResult])
    /\ lookupFailed' = TRUE
    /\ UNCHANGED <<params, chans, idle, part, cons, events, doneData, progressMax,
                   resMax, usedSeen, issued, doneCloses, errorSeen, recvAfterStop, rerun, pure>>

\* wg.Wait(); close(results), in the goroutine started after the workers
CloseResults ==
    /\ ppc # "none" /\ wg = 0 /\ ~resultsClosed
    /\ resultsClosed' = TRUE
    /\ UNCHANGED <<params, work, workClosed, done, wg, pool, part, cons, obs, rerun, pure>>

\* ---- consuming loop ----
\* mutant: close(done) without the select that tests whether it is closed
CloseDoneAgain ==
    /\ done' = TRUE
    /\ doneCloses' = doneCloses + 1

\* select { case <-done: default: close(done) }
CloseDone ==
    /\ done' = TRUE
    /\ doneCloses' = IF done THEN doneCloses ELSE doneCloses + 1

\* mutant: the error is reported from inside the loop, which then carries on
ConsumeErrorReported(r) ==
    /\ cpc = "range" /\ ~resultsClosed
    /\ r \in DOMAIN held /\ held[r].pc = "send" /\ held[r].res.Error
    /\ CloseDone
    /\ held' = Drop(held, r)
    /\ wg' = wg - 1
    /\ events' = Append(events, "error")
    /\ errorSeen' = TRUE
    /\ recvAfterStop' = IF done THEN recvAfterStop + 1 ELSE recvAfterStop
    /\ UNCHANGED <<params, work, workClosed, resultsClosed, idle, part, cons,
                   doneData, progressMax, resMax, usedSeen, issued, lookupFailed,
                   rerun, pure>>

\* if res.Error != nil { close done if open; continue }; the sending worker returns
ConsumeError(r) ==
    /\ cpc = "range" /\ ~resultsClosed
    /\ r \in DOMAIN held /\ held[r].pc = "send" /\ held[r].res.Error
    /\ CloseDone
    /\ held' = Drop(held, r)
    /\ wg' = wg - 1
    /\ errorSeen' = TRUE
    /\ recvAfterStop' = IF done THEN recvAfterStop + 1 ELSE recvAfterStop
    /\ UNCHANGED <<params, work, workClosed, resultsClosed, idle, part, cons, events,
                   doneData, progressMax, resMax, usedSeen, issued, lookupFailed,
                   rerun, pure>>

\* mutant: a round ending exactly at lastKnownIndex is not counted
RecordedAbove(res) == Len(res.Addresses) = 0 /\ res.End > lastKnownIndex

\* mutant: the test for an empty round is dropped
RecordedAny(res) == res.End >= lastKnownIndex

\* len(res.Addresses) == 0 && res.End >= lastKnownIndex
Recorded(res) == Len(res.Addresses) = 0 /\ res.End >= lastKnownIndex

EmptyAfter(res) == IF Recorded(res) THEN empty \cup {res.Round} ELSE empty

\* consecutive := consecutiveEmptyRounds(empty); consecutive >= maxEmptyRounds
Threshold(res) ==
    Recorded(res) /\ consecutiveEmptyRounds(EmptyAfter(res)) >= maxEmptyRounds

\* mutant: the latest round with a used address overwrites the index
IndexAfterLatest(res) == IF res.LastUsedIndex > 0 THEN res.LastUsedIndex ELSE lastIndex

\* if res.LastUsedIndex > lastIndex { lastIndex = ...; lastUsageType = ... }
IndexAfter(res) == IF res.LastUsedIndex > lastIndex THEN res.LastUsedIndex ELSE lastIndex

TypeAfter(res) == IF res.LastUsedIndex > lastIndex THEN res.LastUsedType ELSE lastUsageType

\* lines 183-202 of one iteration, and the worker going back to its range loop
Aggregate(r) ==
    LET res == held[r].res
    IN  /\ cpc = "range" /\ ~resultsClosed
        /\ r \in DOMAIN held /\ held[r].pc = "send" /\ ~held[r].res.Error
        /\ empty' = EmptyAfter(res)
        /\ IF Threshold(res) THEN CloseDone ELSE UNCHANGED <<done, doneCloses>>
        /\ usedTotal' = (usedTotal + Len(res.Addresses)) % Word
        /\ lastIndex' = IndexAfter(res)
        /\ lastUsageType' = TypeAfter(res)
        /\ resMax' = IF res.LastUsedIndex > resMax THEN res.LastUsedIndex ELSE resMax
        /\ held' = Drop(held, r)
        /\ idle' = idle + 1
        /\ recvAfterStop' = IF done THEN recvAfterStop + 1 ELSE recvAfterStop

\* callback.Invoke("progress", data)
ConsumeResult(r) ==
    /\ Aggregate(r)
    /\ events' = Append(events, "progress")
    /\ progressMax' = IF lastIndex' > progressMax THEN lastIndex' ELSE progressMax
    /\ usedSeen' = usedSeen \cup
                     {held[r].res.Addresses[k].Index : k \in DOMAIN held[r].res.Addresses}
    /\ UNCHANGED <<params, work, workClosed, resultsClosed, wg, part, cpc, doneData,
                   issued, lookupFailed, errorSeen, rerun, pure>>

\* mutants: the index is never, or always, incremented
FinalIndexKept == lastIndex

FinalIndexAlways == (lastIndex + 1) % Word

\* lines 218-229: the extra address after a "sent" address
FinalIndex == IF lastUsageType = "sent" THEN (lastIndex + 1) % Word ELSE lastIndex

FinalAdditional ==
    IF lastUsageType = "sent" THEN << generateAddress(FinalIndex) >> ELSE << >>

\* the results channel is closed: callback.Invoke(js.Null(), data)
Finish ==
    /\ cpc = "range" /\ resultsClosed
    /\ lastIndex' = FinalIndex
    /\ doneData' = [addresses |-> FinalAdditional, index |-> FinalIndex]
    /\ events' = Append(events, "done")
    /\ cpc' = "returned"
    /\ UNCHANGED <<params, chans, pool, part, usedTotal, lastUsageType, empty,
                   progressMax, resMax, usedSeen, issued, doneCloses, lookupFailed,
                   errorSeen, recvAfterStop, rerun, pure>>

\* interfaceToJSON fails in the loop: callback.Invoke(err.Error(), js.Null()); return
ProgressMarshalFail(r) ==
    /\ Aggregate(r)
    /\ events' = Append(events, "error")
    /\ cpc' = "returned"
    /\ UNCHANGED <<params, work, workClosed, resultsClosed, wg, part, doneData,
                   progressMax, usedSeen, issued, lookupFailed, errorSeen,
                   rerun, pure>>

\* interfaceToJSON fails after the loop
FinishMarshalFail ==
    /\ cpc = "range" /\ resultsClosed
    /\ lastIndex' = FinalIndex
    /\ events' = Append(events, "error")
    /\ cpc' = "returned"
    /\ UNCHANGED <<params, chans, pool, part, usedTotal, lastUsageType, empty,
                   doneData, progressMax, resMax, usedSeen, issued, doneCloses,
                   lookupFailed, errorSeen, recvAfterStop, rerun,
                   pure>>

\* ---- specifications ----
Rounds == 0..(MaxRound - 1)

\* interfaceToJSON succeeds on every payload (maps of counts, indexes and addresses)
Next ==
    \/ RecoverWalletFail
    \/ StartScan
    \/ PartitionerStop
    \/ PartitionerDefault
    \/ PartitionerSend
    \/ WorkerReceive
    \/ WorkerExit
    \/ \E r \in Rounds : WorkerLookup(r)
    \/ \E r \in Rounds : WorkerLookupFail(r)
    \/ CloseResults
    \/ \E r \in Rounds : ConsumeError(r)
    \/ \E r \in Rounds : ConsumeResult(r)
    \/ Finish

Spec == Init /\ [][Next]_vars

\* the same program with interfaceToJSON allowed to fail
NextJSON ==
    \/ Next
    \/ \E r \in Rounds : ProgressMarshalFail(r)
    \/ FinishMarshalFail

\* the ledgers with at most one used address
SmallLedgers == {l \in Ledgers : Cardinality({n \in LedgerIndexes : l[n] # ""}) <= 1}

InitJSON ==
    /\ seedValid \in BOOLEAN
    /\ startIndex \in StartIndexes
    /\ maxEmptyRounds \in EmptyRoundLimits
    /\ addressCount \in AddressCounts
    /\ lastKnownIndex = 0
    /\ ledger \in SmallLedgers
    /\ workers \in 1..MaxWorkers
    /\ Entry
    /\ run = 1 /\ first = << >>
    /\ cerIn = << >> /\ cerOut = -1

SpecJSON == InitJSON /\ [][NextJSON]_vars

\* the same program with the larger worker pool that lets three results be outstanding
OrderWorkers == MaxWorkers + 1

InitOrder ==
    /\ seedValid \in BOOLEAN
    /\ startIndex \in StartIndexes
    /\ maxEmptyRounds \in EmptyRoundLimits
    /\ addressCount \in {1, 2}
    /\ lastKnownIndex \in LastKnownIndexes
    /\ ledger \in {l \in Ledgers : Cardinality({n \in LedgerIndexes : l[n] # ""}) <= 1}
    /\ workers = OrderWorkers
    /\ Entry
    /\ run = 1 /\ first = << >>
    /\ cerIn = << >> /\ cerOut = -1

SpecOrder == InitOrder /\ [][Next]_vars

\* RecoverAddresses is called a second time with the same arguments and ledger
Rerun ==
    /\ run = 1 /\ cpc = "returned"
    /\ run' = 2
    /\ first' = [used |-> usedSeen, data |-> doneData, failed |-> lookupFailed]
    /\ work' = << >> /\ workClosed' = FALSE /\ resultsClosed' = FALSE
    /\ done' = FALSE /\ wg' = 0
    /\ idle' = 0 /\ held' = NoneHeld
    /\ ppc' = "none" /\ round' = 0 /\ i' = 0
    /\ cpc' = "call" /\ lastIndex' = 0 /\ usedTotal' = 0 /\ lastUsageType' = ""
    /\ empty' = {}
    /\ events' = << >> /\ doneData' = << >> /\ progressMax' = 0 /\ resMax' = 0
    /\ usedSeen' = {} /\ issued' = << >> /\ doneCloses' = 0 /\ lookupFailed' = FALSE
    /\ errorSeen' = FALSE /\ recvAfterStop' = 0
    /\ UNCHANGED <<params, pure>>

InitRerun ==
    /\ seedValid \in BOOLEAN
    /\ startIndex = 0
    /\ maxEmptyRounds \in EmptyRoundLimits
    /\ addressCount = 1
    /\ lastKnownIndex = 0
    /\ ledger \in Ledgers
    /\ workers \in 1..MaxWorkers
    /\ Entry
    /\ run = 1 /\ first = << >>
    /\ cerIn = << >> /\ cerOut = -1

NextRerun == Next \/ Rerun

SpecRerun == InitRerun /\ [][NextRerun]_vars

\* consecutiveEmptyRounds on its own: called once with a list of round numbers
CerValues == {0, 1, 2, 3, Word - 2, Word - 1}

Lists == UNION {[1..n -> CerValues] : n \in 1..MaxListLen}

\* the keys of roundMap after the first loop of consecutiveEmptyRounds
Range(list) == {list[k] : k \in DOMAIN list}

InitRounds ==
    /\ seedValid = TRUE /\ startIndex = 0 /\ maxEmptyRounds = 1 /\ addressCount = 1
    /\ lastKnownIndex = 0 /\ ledger = [n \in LedgerIndexes |-> ""] /\ workers = 1
    /\ Entry
    /\ run = 1 /\ first = << >>
    /\ cerIn \in Lists /\ cerOut = -1

CallConsecutiveEmptyRounds ==
    /\ cerOut = -1
    /\ cerOut' = consecutiveEmptyRounds(Range(cerIn))
    /\ UNCHANGED <<params, chans, pool, part, cons, obs, rerun, cerIn>>

NextRounds == CallConsecutiveEmptyRounds

SpecRounds == InitRounds /\ [][NextRounds]_vars

\* ---- vocabulary of the properties ----
Count(kind) == Cardinality({k \in DOMAIN events : events[k] = kind})

Terminal == {"error", "done"}

\* round n of the scan, as the partitioner defines it
RoundStart(n) == startIndex + n * addressCount

RoundEnd(n) == startIndex + (n + 1) * addressCount

\* S contains n consecutive round numbers
HasRun(S, n) == \E a \in S : \A k \in 0..(n - 1) : a + k \in S

\* the n round numbers ending at the highest number of S are all in S
RunAtTop(S, n) == S # {} /\ \A k \in 0..(n - 1) : Max(S) - k \in S

\* no round reaching lastKnownIndex contains a used address
NoUsedAtOrAbove ==
    \A n \in Rounds :
        RoundEnd(n) >= lastKnownIndex =>
            \A x \in LedgerIndexes : RoundStart(n) <= x /\ x < RoundEnd(n) => ledger[x] = ""

ErrorStep == \E r \in Rounds : ConsumeError(r)

\* ---- claims ----

\* C1 as stated: in runs where no round reaching lastKnownIndex has a used address (and
\* no lookup fails), the stop signal is set exactly when empty_round_numbers contains
\* maxEmptyRounds consecutive round numbers, wherever that run lies.
C1_StopOnAnyRun ==
    (NoUsedAtOrAbove /\ ~lookupFailed) => (done <=> HasRun(empty, maxEmptyRounds))

\* C1 amended: in such runs the stop signal goes from unset to set exactly in a step
\* that records an empty round after which the maxEmptyRounds round numbers ending at
\* the highest recorded round number are all recorded.
C1_StopOnRunAtTop ==
    [][(NoUsedAtOrAbove /\ ~lookupFailed' /\ ~done) =>
          (done' <=> (empty' # empty /\ RunAtTop(empty', maxEmptyRounds)))]_vars

\* C1 witness: the stop was declared on rounds 1 and 2 while round 0 is still with a worker
C1_Witness ==
    /\ NoUsedAtOrAbove /\ ~lookupFailed /\ done
    /\ maxEmptyRounds = 2 /\ empty = {1, 2} /\ 0 \in DOMAIN held

\* C2: once a lookup has failed, the finished run has delivered exactly one error event
\* and no done event.
C2_ErrorSurfaced ==
    (lookupFailed /\ cpc = "returned") => (Count("error") = 1 /\ Count("done") = 0)

\* C3: a run that has returned has emitted exactly one terminal event (error or done),
\* a terminal event is always the last event, a run still under way has emitted none,
\* and after a wallet-recovery failure the only event is the error and no round was issued.
C3_OneTerminalEvent ==
    /\ \A k \in DOMAIN events : events[k] \in Terminal => k = Len(events)
    /\ cpc = "returned" => Count("error") + Count("done") = 1
    /\ cpc # "returned" => Count("error") + Count("done") = 0
    /\ (cpc = "returned" /\ ~seedValid) => (events = << "error" >> /\ issued = << >>)

\* C3 witness: a run with a failed lookup and two progress events has returned
C3_Witness ==
    cpc = "returned" /\ lookupFailed /\ Count("progress") >= 2 /\ Len(events) >= 3

\* C4: in the done event, if the stored usage type is "sent" the list is exactly the
\* address derived at highest_used_index + 1 and the index is that incremented index;
\* otherwise the list is empty and the index is highest_used_index (the greatest
\* last_used_index consumed, 0 when there was no update).
C4_DoneEvent ==
    Count("done") = 1 =>
        IF lastUsageType = "sent"
        THEN doneData = [addresses |-> << generateAddress(resMax + 1) >>,
                         index |-> resMax + 1]
        ELSE doneData = [addresses |-> << >>, index |-> resMax]

\* C4 witness: a "received" address at 1 and a "sent" address at 2, done carries address 3
C4_Witness ==
    /\ Count("done") = 1 /\ lastUsageType = "sent"
    /\ ledger[1] = "received" /\ ledger[2] = "sent"
    /\ doneData.index = 3 /\ Len(doneData.addresses) = 1

\* C5: the index of the done event is at least the last_used_index of every consumed
\* round result and the index of every progress event.
C5_DoneIndexIsMax ==
    Count("done") = 1 => (doneData.index >= resMax /\ doneData.index >= progressMax)

\* C5 witness: two rounds with used addresses were consumed before done
C5_Witness ==
    /\ Count("done") = 1 /\ progressMax = 2 /\ usedSeen = {1, 2}
    /\ lastUsageType = "received"

\* C6: a second run with the same arguments and ledger (no lookup failing in either)
\* reports the same used addresses and the same done index as the first.
C6_SameOutcome ==
    (run = 2 /\ cpc = "returned" /\ seedValid /\ ~lookupFailed /\ ~first.failed) =>
        (usedSeen = first.used /\ doneData.index = first.data.index)

\* C7: the n-th submitted round has number n-1 and covers
\* [startIndex + (n-1)*addressCount, startIndex + n*addressCount).
C7_ContiguousRounds ==
    \A n \in DOMAIN issued :
        /\ issued[n].Round = n - 1
        /\ issued[n].Start = RoundStart(n - 1)
        /\ issued[n].End = RoundEnd(n - 1)

\* C7 witness: MaxRound rounds of width 2 were submitted from start index 1
C7_Witness == Len(issued) = MaxRound /\ startIndex = 1 /\ addressCount = 2

AllUnused ==
    /\ seedValid /\ maxEmptyRounds = 2 /\ lastKnownIndex = 0
    /\ \A x \in LedgerIndexes : ledger[x] = ""

\* C8 as stated: with maxEmptyRounds = 2, lastKnownIndex = 0 and nothing used, the stop
\* signal is set only once rounds 0 and 1 are recorded.
C8_StopOnRounds01 ==
    (AllUnused /\ ~lookupFailed /\ done) => {0, 1} \subseteq empty

\* C8 amended: in that scenario the stop signal is set in the step that records an empty
\* round after which the two highest recorded round numbers are consecutive (rounds 0
\* and 1 when results arrive in round order), and the run ends with done, index 0 and
\* no address.
C8_StopOnTwoAtTop ==
    [][(AllUnused /\ ~lookupFailed') =>
          /\ (~done /\ done') => (empty' # empty /\ RunAtTop(empty', 2))
          /\ cpc' = "returned" =>
                /\ events'[Len(events')] = "done"
                /\ doneData' = [addresses |-> << >>, index |-> 0]]_vars

\* C8 witness: the scenario has ended with done after rounds 0, 1 and 2 were scanned
C8_Witness ==
    /\ AllUnused /\ ~lookupFailed /\ cpc = "returned"
    /\ addressCount = 2 /\ workers = 2 /\ empty = {0, 1, 2}
    /\ events = << "progress", "progress", "progress", "done" >>

\* C9: with addressCount = 0 no round is submitted, no lookup is issued and the run
\* ends with an error event.
C9_ZeroCountRejected ==
    addressCount = 0 =>
        /\ issued = << >>
        /\ held = NoneHeld
        /\ cpc = "returned" => events = << "error" >>

\* C10: a step that sets the stop signal without consuming an error result has just
\* recorded an empty round, and then the maxEmptyRounds round numbers ending at the
\* highest recorded one are all recorded; a step that consumes a round with used
\* addresses leaves the stop signal as it was.
C10_StopOnlyOnEmptyRound ==
    [][/\ (~done /\ done' /\ ~ErrorStep) =>
             /\ empty' # empty /\ usedTotal' = usedTotal
             /\ RunAtTop(empty', maxEmptyRounds)
       /\ usedTotal' > usedTotal => done' = done]_vars

\* C10 witness: stopped, and a round with used addresses was consumed after round 1
\* had been recorded, with a gap at round 0
C10_Witness ==
    /\ done /\ ~lookupFailed /\ usedTotal > 0 /\ maxEmptyRounds = 2
    /\ empty = {1, 2} /\ Len(events) = 3

\* a step of the consuming loop that takes a round result (an error result included)
Received == recvAfterStop' # recvAfterStop \/ events' # events \/ ErrorStep

\* C11: the step that consumes an error result sets the stop signal, and once an error
\* result has been consumed no progress event is emitted and highest_used_index,
\* highest_used_type, empty_round_numbers and total_used_count do not change while the
\* consuming loop runs.
C11_DiscardAfterError ==
    [][/\ ErrorStep => done'
       /\ (errorSeen /\ cpc' = "range") =>
             /\ Count("progress")' = Count("progress")
             /\ UNCHANGED <<lastIndex, lastUsageType, empty, usedTotal>>]_vars

\* C12: whenever the results channel is closed, the work channel is closed and holds
\* no round.
C12_ResultsCloseAfterDrain ==
    resultsClosed => (workClosed /\ work = << >>)

\* the round numbers waiting in the work channel
Queued == {work[k].Round : k \in DOMAIN work}

\* C13: once the stop signal is set no round is placed on the work channel, and a round
\* that is in the channel or held by a worker leaves only by being taken by a worker or
\* by its result being received.
C13_NoRoundAfterStop ==
    [][done =>
          /\ issued' = issued
          /\ \A r \in Queued : r \in Queued' \/ r \in DOMAIN held'
          /\ \A r \in DOMAIN held : r \in DOMAIN held' \/ Received]_vars

\* C14: no task stays blocked forever: the partitioner is never left blocked on a full
\* work channel after every worker has exited (wg = 0 is final, so nothing would ever
\* receive from the channel again and close(work) would never run).
C14_NoTaskBlockedForever ==
    ~(wg = 0 /\ ppc = "send" /\ Len(work) = workers)

\* the indexes of the used addresses of a round result
UsedIndexes(res) == {res.Addresses[k].Index : k \in DOMAIN res.Addresses}

\* C15: a round result that was looked up successfully and has a used address carries
\* the greatest used index of the round as last_used_index and the usage type of that
\* address as last_used_type.
C15_LastUsedIsMax ==
    \A r \in DOMAIN held :
        (held[r].pc = "send" /\ ~held[r].res.Error /\ held[r].res.Addresses # << >>) =>
            /\ held[r].res.LastUsedIndex = Max(UsedIndexes(held[r].res))
            /\ held[r].res.LastUsedType = ledger[Max(UsedIndexes(held[r].res))]

\* C16 as stated: no recorded round has its whole range [start, end) below
\* lastKnownIndex.
C16_BelowNeverRecorded ==
    \A n \in empty : ~(RoundStart(n) < RoundEnd(n) /\ RoundEnd(n) <= lastKnownIndex)

\* C16 amended: a received round result is recorded exactly when it has no used address
\* and its end_index is at or beyond lastKnownIndex, so every recorded round ends at or
\* beyond lastKnownIndex (a round ending exactly there included).
C16_RecordedIffEndReaches ==
    [][/\ \A n \in empty' : RoundEnd(n) >= lastKnownIndex
       /\ \A r \in DOMAIN held :
             (held[r].pc = "send" /\ ~held[r].res.Error /\ r \notin DOMAIN held') =>
                 (r \in empty' <=>
                     (held[r].res.Addresses = << >> /\ RoundEnd(r) >= lastKnownIndex))]_vars

\* C16 witness: round 0 = [0,1) was received and not recorded, round 1 = [1,2), which
\* ends at lastKnownIndex = 2, was received and recorded
C16_Witness ==
    /\ lastKnownIndex = 2 /\ startIndex = 0 /\ addressCount = 1 /\ ~lookupFailed
    /\ Len(issued) = 2 /\ work = << >> /\ held = NoneHeld
    /\ usedTotal = 0 /\ empty = {1}

\* C17: the stop signal is never reset, close(done) runs at most once in a run, and the
\* signal is set exactly when the channel has been closed.
C17_SingleStop ==
    [][/\ done => done'
       /\ doneCloses' <= 1
       /\ done' <=> doneCloses' = 1]_vars

\* C17 witness: an error result was received and the threshold was reached on the last
\* recorded round, so both reasons to stop arose, and done was closed once
C17_Witness ==
    /\ errorSeen /\ RunAtTop(empty, maxEmptyRounds)
    /\ done /\ doneCloses = 1 /\ recvAfterStop >= 2

RunLengthAtTop(S) ==
    CHOOSE n \in 1..Cardinality(S) :
        /\ \A k \in 0..(n - 1) : Max(S) - k \in S
        /\ Max(S) - n \notin S

\* C19: for a non-empty list consecutiveEmptyRounds returns the length of the run of
\* consecutive round numbers ending at the greatest number of the list; when the run
\* goes down to round 0 the result is that number + 1, and it is never 0 nor more than
\* the length of the list.
C19_RunEndingAtMax ==
    cerOut # -1 =>
        /\ cerOut = RunLengthAtTop(Range(cerIn))
        /\ (\A n \in 0..Max(Range(cerIn)) : n \in Range(cerIn)) =>
               cerOut = Max(Range(cerIn)) + 1
        /\ cerOut >= 1 /\ cerOut <= Len(cerIn)

\* C19 witness: the list 1, 0, 2 gave 3 (the walk went below round 0)
C19_Witness == cerIn = << 1, 0, 2 >> /\ cerOut = 3

\* the submitted rounds whose result has not been received
Outstanding == Queued \cup DOMAIN held

====
